---- MODULE Spec2Model ----
(***************************************************************************)
(* mukti: release metadata (releases.json) maintenance.                    *)
(*                                                                         *)
(* The main specifications of this module:                                *)
(*   Spec      one run of a command (add-release or checksum backfill):    *)
(*             the bounded-concurrency fetch batch of checksums.rs and     *)
(*             the reconciliation that follows it;                         *)
(*   SpecTree  sequences of update_release_json calls on the tree, with    *)
(*             the fetch outcomes given as inputs.                         *)
(* Further specifications refine one step or state one function: they are  *)
(* introduced where they are defined.                                      *)
(***************************************************************************)
EXTENDS Integers, Sequences, FiniteSets, TLC

VARIABLES
    file,        \* contents of the releases.json path: a document, or Absent
    doc,         \* release_json: the in-memory MuktiReleasesJson
    pc,          \* position of the command
    cmd,         \* inputs of the command: release_url, archive_prefix, version, archives
    jobs,        \* download_jobs
    tasks,       \* one record per future of fetch_tasks, in iterator order
    out,         \* archives_with_checksums (ordered mode)
    results,     \* results: BTreeMap<String, Checksums> (keyed mode)
    succeeded,   \* tally
    failed,      \* tally
    exit,        \* result of the command: "none", "ok" or "err"
    writes,      \* number of completed write_releases_json calls
    ops,         \* SpecTree: number of update_release_json calls made
    temp,        \* SpecWrite: the temporary file of AtomicFile, or NoTemp
    observed     \* SpecWrite: what a concurrent reader of the path last read

\* The variables that only SpecWrite changes.
wvars == <<temp, observed>>

vars == <<file, doc, pc, cmd, jobs, tasks, out, results, succeeded, failed,
          exit, writes, ops, temp, observed>>

-----------------------------------------------------------------------------
(* Bounds of the model.                                                    *)

MaxArchives == 2        \* longest archive list of an add-release command
MaxJobs == 2            \* download_jobs ranges over 1..MaxJobs
MaxBody == 2            \* distinct bodies a successful (2xx) response can carry
MaxMajor == 2           \* SpecTree: major version numbers 0..MaxMajor
MaxPre == 1             \* SpecTree: prerelease tags 0 (none) .. MaxPre
MaxOps == 2             \* SpecTree: update_release_json calls per behaviour

\* Mutant: one retry more.
LastAttemptOneMore == 2 + 1

(* The last value of `attempt` at which spawn_fetch_and_checksum_task      *)
(* still fetches: checksums.rs line 167.                                   *)
LastAttempt == 2

-----------------------------------------------------------------------------
(* semver::Version and mukti_metadata::VersionRange.                       *)

\* pre = 0 is an empty prerelease; pre = k > 0 is the k-th prerelease tag in
\* semver precedence order.  build = 0 is empty build metadata.
V(ma, mi, pa, pr) == [major |-> ma, minor |-> mi, patch |-> pa, pre |-> pr, build |-> 0]

\* semver: an empty prerelease has higher precedence than any non-empty one.
PreLt(a, b) ==
    \/ a # 0 /\ b = 0
    \/ a # 0 /\ b # 0 /\ a < b

VersionLt(a, b) ==
    \/ a.major < b.major
    \/ a.major = b.major /\ a.minor < b.minor
    \/ a.major = b.major /\ a.minor = b.minor /\ a.patch < b.patch
    \/ a.major = b.major /\ a.minor = b.minor /\ a.patch = b.patch
         /\ PreLt(a.pre, b.pre)
    \/ a.major = b.major /\ a.minor = b.minor /\ a.patch = b.patch
         /\ a.pre = b.pre /\ a.build < b.build

Patch(n) == [kind |-> "Patch", n |-> n]
Minor(n) == [kind |-> "Minor", n |-> n]
Major(n) == [kind |-> "Major", n |-> n]
None == [kind |-> "None"]

\* Mutant: a prerelease is filed under its patch number.
from_version_by_pre(version) ==
    IF version.pre # 0 THEN Patch(version.patch)
    ELSE IF version.major >= 1 THEN Major(version.major)
    ELSE IF version.minor >= 1 THEN Minor(version.minor)
    ELSE Patch(version.patch)

from_version(version) ==
    IF version.major >= 1 THEN Major(version.major)
    ELSE IF version.minor >= 1 THEN Minor(version.minor)
    ELSE Patch(version.patch)

\* #[derive(PartialOrd, Ord)] on the enum: variant declaration order first,
\* then the payload.
\* Mutant: the variants ordered by name.
KindRankByName(kind) == CASE kind = "Major" -> 0 [] kind = "Minor" -> 1 [] kind = "Patch" -> 2

KindRank(kind) == CASE kind = "Patch" -> 0 [] kind = "Minor" -> 1 [] kind = "Major" -> 2

RangeLt(a, b) ==
    \/ KindRank(a.kind) < KindRank(b.kind)
    \/ a.kind = b.kind /\ a.n < b.n

\* BTreeMap<String, _> iterates in key order.
NameRank(name) == CASE name = "nextest" -> 1 [] name = "other" -> 2

NameLt(a, b) == NameRank(a) < NameRank(b)

-----------------------------------------------------------------------------
(* Ordered iteration of a BTreeMap's keys.                                 *)

MaxOf(S, Lt(_, _)) == CHOOSE x \in S : \A y \in S : y = x \/ Lt(y, x)

MinOf(S, Lt(_, _)) == CHOOSE x \in S : \A y \in S : y = x \/ Lt(x, y)

RECURSIVE SortedVersions(_)
SortedVersions(S) ==
    IF S = {} THEN <<>>
    ELSE LET m == MinOf(S, VersionLt) IN <<m>> \o SortedVersions(S \ {m})

RECURSIVE SortedRanges(_)
SortedRanges(S) ==
    IF S = {} THEN <<>>
    ELSE LET m == MinOf(S, RangeLt) IN <<m>> \o SortedRanges(S \ {m})

RECURSIVE SortedNames(_)
SortedNames(S) ==
    IF S = {} THEN <<>>
    ELSE LET m == MinOf(S, NameLt) IN <<m>> \o SortedNames(S \ {m})

RECURSIVE Flatten(_)
Flatten(ss) == IF ss = <<>> THEN <<>> ELSE Head(ss) \o Flatten(Tail(ss))

-----------------------------------------------------------------------------
(* Digests.                                                                *)

\* A response body is a small integer; the digest functions are modelled as
\* injective tagged values, the hex encoding as a further tagging.
Sha256Digest(bytes) == <<"sha256", bytes>>
Blake2bDigest(bytes) == <<"blake2b", bytes>>
HexEncode(d) == <<"hex", d>>

Checksums(bytes) == [sha256 |-> Sha256Digest(bytes), blake2b |-> Blake2bDigest(bytes)]

to_checksum_map(checksums) ==
    [alg \in {"SHA256", "BLAKE2B"} |->
        IF alg = "SHA256" THEN HexEncode(checksums.sha256)
        ELSE HexEncode(checksums.blake2b)]

NoChecksums == <<>>

-----------------------------------------------------------------------------
(* The metadata tree (mukti-metadata models.rs) and update_release_json.   *)

\* BTreeMap::insert: add the key or replace its value.
Put(f, k, v) == [x \in (DOMAIN f) \cup {k} |-> IF x = k THEN v ELSE f[x]]

EmptyMap == <<>>

\* MuktiReleasesJson::default()
DefaultDoc == [projects |-> EmptyMap]

\* Outcome of one fetch as ArchiveWithChecksums.checksums carries it.
OkChecksums(c) == [ok |-> TRUE, checksums |-> c]
ErrChecksums(e) == [ok |-> FALSE, err |-> e]

\* The closure of lines 72-90: one ReleaseLocation per ArchiveWithChecksums.
LocationOf(archive) ==
    [target |-> archive.archive.target_format.target,
     format |-> archive.archive.target_format.format,
     url |-> archive.url,
     checksums |-> IF archive.checksums.ok
                   THEN to_checksum_map(archive.checksums.checksums)
                   ELSE NoChecksums]

\* Mutant: the keys are scanned from the front (find without rev).
RECURSIVE FindNonPre(_)
FindNonPre(keys) ==
    IF keys = <<>> THEN None
    ELSE IF keys[1].pre = 0 THEN keys[1]
    ELSE FindNonPre(Tail(keys))

\* data.versions.keys().rev().find(|version| version.pre.is_empty()):
\* scan the sorted keys from the back.
RECURSIVE RevFindNonPre(_)
RevFindNonPre(keys) ==
    IF keys = <<>> THEN None
    ELSE IF keys[Len(keys)].pre = 0 THEN keys[Len(keys)]
    ELSE RevFindNonPre(SubSeq(keys, 1, Len(keys) - 1))

\* Lines 102-123: recompute latest / is_prerelease of the bucket.
RecomputeBucket(data) ==
    LET keys == SortedVersions(DOMAIN data.versions)
        latest_non_prerelease == RevFindNonPre(keys)
    IN IF latest_non_prerelease # None
       THEN [data EXCEPT !.latest = latest_non_prerelease, !.is_prerelease = FALSE]
       ELSE [data EXCEPT !.latest = keys[Len(keys)], !.is_prerelease = TRUE]

\* Mutant: the greatest range of all, prerelease-only buckets included.
LatestRangeUnfiltered(ranges) ==
    IF DOMAIN ranges = {} THEN None ELSE MaxOf(DOMAIN ranges, RangeLt)

\* Lines 126-132: the greatest range whose bucket is not prerelease-only.
LatestRange(ranges) ==
    LET stable == {r \in DOMAIN ranges : ~ranges[r].is_prerelease}
    IN IF stable = {} THEN None ELSE MaxOf(stable, RangeLt)

\* Mutant: an entry that exists is kept, with the new locations appended.
UpdateProjectMerging(project, release_url, version, archives) ==
    LET range == from_version(version)
        seeded == IF range \in DOMAIN project.ranges
                  THEN project.ranges[range]
                  ELSE [latest |-> version,
                        is_prerelease |-> (version.pre # 0),
                        versions |-> EmptyMap]
        locations == [i \in 1..Len(archives) |-> LocationOf(archives[i])]
        entry == IF version \in DOMAIN seeded.versions
                 THEN [seeded.versions[version] EXCEPT !.locations = @ \o locations]
                 ELSE [release_url |-> release_url,
                       status |-> "active",
                       locations |-> locations]
        inserted == [seeded EXCEPT !.versions = Put(seeded.versions, version, entry)]
        ranges == Put(project.ranges, range, RecomputeBucket(inserted))
    IN [latest |-> LatestRange(ranges), ranges |-> ranges]

\* Lines 59-132 applied to the single project.
UpdateProject(project, release_url, version, archives) ==
    LET range == from_version(version)
        seeded == IF range \in DOMAIN project.ranges
                  THEN project.ranges[range]
                  ELSE [latest |-> version,
                        is_prerelease |-> (version.pre # 0),
                        versions |-> EmptyMap]
        locations == [i \in 1..Len(archives) |-> LocationOf(archives[i])]
        entry == [release_url |-> release_url,
                  status |-> "active",
                  locations |-> locations]
        inserted == [seeded EXCEPT !.versions = Put(seeded.versions, version, entry)]
        ranges == Put(project.ranges, range, RecomputeBucket(inserted))
    IN [latest |-> LatestRange(ranges), ranges |-> ranges]

\* Mutant: more than one project is accepted and the first one updated.
UpdateTreeFirstProject(release_json, release_url, version, archives) ==
    IF archives = <<>> THEN [outcome |-> "skip", doc |-> release_json]
    ELSE IF DOMAIN release_json.projects = {}
    THEN [outcome |-> "bail", doc |-> release_json]
    ELSE LET name == CHOOSE n \in DOMAIN release_json.projects :
                        \A o \in DOMAIN release_json.projects : o = n \/ NameLt(n, o)
             project == UpdateProject(release_json.projects[name],
                                      release_url, version, archives)
         IN [outcome |-> "write",
             doc |-> [release_json EXCEPT !.projects[name] = project]]

\* Mutant: no early return for the empty archive list.
UpdateTreeInsertsEmpty(release_json, release_url, version, archives) ==
    IF Cardinality(DOMAIN release_json.projects) # 1
    THEN [outcome |-> "bail", doc |-> release_json]
    ELSE LET name == CHOOSE n \in DOMAIN release_json.projects : TRUE
             project == UpdateProject(release_json.projects[name],
                                      release_url, version, archives)
         IN [outcome |-> "write",
             doc |-> [release_json EXCEPT !.projects[name] = project]]

\* update_release_json up to the write: the outcome ("skip" for the empty
\* archive list, "bail" for the project count, "write" otherwise) and the
\* tree as the call leaves it.
UpdateTree(release_json, release_url, version, archives) ==
    IF archives = <<>> THEN [outcome |-> "skip", doc |-> release_json]
    ELSE IF Cardinality(DOMAIN release_json.projects) # 1
    THEN [outcome |-> "bail", doc |-> release_json]
    ELSE LET name == CHOOSE n \in DOMAIN release_json.projects : TRUE
             project == UpdateProject(release_json.projects[name],
                                      release_url, version, archives)
         IN [outcome |-> "write",
             doc |-> [release_json EXCEPT !.projects[name] = project]]

\* MuktiProject::all_versions, then the locations of each version, in map
\* order: the sequence all_locations yields.
ProjectLocations(project) ==
    LET rs == SortedRanges(DOMAIN project.ranges)
        InBucket(data) ==
            LET vs == SortedVersions(DOMAIN data.versions)
            IN Flatten([j \in 1..Len(vs) |-> data.versions[vs[j]].locations])
    IN Flatten([i \in 1..Len(rs) |-> InBucket(project.ranges[rs[i]])])

all_locations(release_json) ==
    LET ns == SortedNames(DOMAIN release_json.projects)
    IN Flatten([i \in 1..Len(ns) |-> ProjectLocations(release_json.projects[ns[i]])])

Complete(location) ==
    "SHA256" \in DOMAIN location.checksums /\ "BLAKE2B" \in DOMAIN location.checksums

all_locations_without_checksums(release_json) ==
    SelectSeq(all_locations(release_json), LAMBDA location : ~Complete(location))

\* Mutant: only the locations that are not checksum-complete are updated.
ApplyResultsIncompleteOnly(release_json, res) ==
    LET Fix(location) ==
            IF location.url \in DOMAIN res /\ ~Complete(location)
            THEN [location EXCEPT !.checksums = to_checksum_map(res[location.url])]
            ELSE location
        Ver(version) ==
            [version EXCEPT !.locations =
                [i \in 1..Len(version.locations) |-> Fix(version.locations[i])]]
        Rng(range_data) ==
            [range_data EXCEPT !.versions =
                [v \in DOMAIN range_data.versions |-> Ver(range_data.versions[v])]]
        Prj(project) ==
            [project EXCEPT !.ranges =
                [r \in DOMAIN project.ranges |-> Rng(project.ranges[r])]]
    IN [release_json EXCEPT !.projects =
            [n \in DOMAIN release_json.projects |-> Prj(release_json.projects[n])]]

\* Mutant: a location whose URL has no entry in results is reset to the
\* empty map.
ApplyResultsClearMissing(release_json, res) ==
    LET Fix(location) ==
            IF location.url \in DOMAIN res
            THEN [location EXCEPT !.checksums = to_checksum_map(res[location.url])]
            ELSE IF ~Complete(location)
            THEN [location EXCEPT !.checksums = NoChecksums]
            ELSE location
        Ver(version) ==
            [version EXCEPT !.locations =
                [i \in 1..Len(version.locations) |-> Fix(version.locations[i])]]
        Rng(range_data) ==
            [range_data EXCEPT !.versions =
                [v \in DOMAIN range_data.versions |-> Ver(range_data.versions[v])]]
        Prj(project) ==
            [project EXCEPT !.ranges =
                [r \in DOMAIN project.ranges |-> Rng(project.ranges[r])]]
    IN [release_json EXCEPT !.projects =
            [n \in DOMAIN release_json.projects |-> Prj(release_json.projects[n])]]

\* Lines 126-137: every location whose URL is a key of results gets the
\* complete map of that entry.
ApplyResults(release_json, res) ==
    LET Loc(location) ==
            IF location.url \in DOMAIN res
            THEN [location EXCEPT !.checksums = to_checksum_map(res[location.url])]
            ELSE location
        Ver(version) ==
            [version EXCEPT !.locations =
                [i \in 1..Len(version.locations) |-> Loc(version.locations[i])]]
        Rng(range_data) ==
            [range_data EXCEPT !.versions =
                [v \in DOMAIN range_data.versions |-> Ver(range_data.versions[v])]]
        Prj(project) ==
            [project EXCEPT !.ranges =
                [r \in DOMAIN project.ranges |-> Rng(project.ranges[r])]]
    IN [release_json EXCEPT !.projects =
            [n \in DOMAIN release_json.projects |-> Prj(release_json.projects[n])]]

-----------------------------------------------------------------------------
(* Inputs and initial documents of a command run.                          *)

Absent == [absent |-> TRUE]

\* No temporary file exists; the concurrent reader has not read yet.
NoTemp == [temp |-> FALSE]

NotRead == [read |-> FALSE]

TargetFormat(target, format) == [target |-> target, format |-> format]

Archive(target, format, name) ==
    [target_format |-> TargetFormat(target, format), name |-> name]

\* The i-th archive of the pool: distinct targets and names.
PoolArchive(i) ==
    Archive("target-" \o ToString(i), "tar.gz", "app-" \o ToString(i) \o ".tar.gz")

\* Archive lists of a command: the first n archives of the pool, and a list
\* that names the same archive twice.
ArchiveLists ==
    {[i \in 1..n |-> PoolArchive(i)] : n \in 0..MaxArchives}
    \cup {<<PoolArchive(1), PoolArchive(1)>>}

Prefix == "https://cdn"

ReleaseUrl == "https://example.com/release"

\* Bodies: 0 is the body of an error page served with a non-success status,
\* 1..MaxBody are archive contents served with a success status.
ErrorPage == 0

Bodies == 1..MaxBody

CompleteMap(bytes) == to_checksum_map(Checksums(bytes))

PartialMap(bytes) == [alg \in {"SHA256"} |-> HexEncode(Sha256Digest(bytes))]

Loc(target, url, checksums) ==
    [target |-> target, format |-> "tar.gz", url |-> url, checksums |-> checksums]

\* A document as earlier runs leave it: one project, bucket "1" with two
\* versions; two incomplete locations share a URL, a third is partial and
\* shares its URL with a complete one.
SeedDoc ==
    [projects |-> [n \in {"nextest"} |->
        [latest |-> Major(1),
         ranges |-> [r \in {Major(1)} |->
            [latest |-> V(1, 1, 0, 0),
             is_prerelease |-> FALSE,
             versions |-> [v \in {V(1, 0, 0, 0), V(1, 1, 0, 0)} |->
                IF v = V(1, 0, 0, 0)
                THEN [release_url |-> ReleaseUrl, status |-> "yanked",
                      locations |->
                        <<Loc("linux", "https://cdn/old-linux.tar.gz", NoChecksums),
                          Loc("mac", "https://cdn/old-mac.tar.gz", PartialMap(1))>>]
                ELSE [release_url |-> ReleaseUrl, status |-> "active",
                      locations |->
                        <<Loc("linux", "https://cdn/old-linux.tar.gz", NoChecksums),
                          Loc("mac", "https://cdn/old-mac.tar.gz", CompleteMap(1))>>]]]]]]]

SeedFiles == {Absent, SeedDoc}

\* The version an add-release run publishes: a prerelease opening bucket "2".
RunVersions == {V(2, 0, 0, 1)}

-----------------------------------------------------------------------------
(* The fetch task: spawn_fetch_and_checksum_task and fetch_url.            *)

\* What the network can answer to one GET: no response at all, or a response
\* with a status and a body that can or cannot be read to the end.
HttpOutcomes ==
    {[kind |-> "neterr"]}
    \cup {[kind |-> "resp", success |-> TRUE, readable |-> TRUE, body |-> b] : b \in Bodies}
    \cup {[kind |-> "resp", success |-> FALSE, readable |-> TRUE, body |-> ErrorPage]}
    \cup {[kind |-> "resp", success |-> TRUE, readable |-> FALSE, body |-> ErrorPage]}

\* fetch_url: reqwest::get(url).await? fails only when no response arrives;
\* resp.bytes() fails only when the body cannot be read.  The status of the
\* response is not looked at.  An error is identified by its kind and by
\* the fetch (1, 2, 3, ...) that produced it.
fetch_url(r, n) ==
    IF r.kind = "neterr" THEN [ok |-> FALSE, err |-> [kind |-> "connect", at |-> n]]
    ELSE IF ~r.readable THEN [ok |-> FALSE, err |-> [kind |-> "body", at |-> n]]
    ELSE [ok |-> TRUE, bytes |-> r.body]

\* Output of the JoinHandle.
TaskOk(c) == [tag |-> "Ok", checksums |-> c]
TaskErr(e) == [tag |-> "Err", err |-> e]
JoinErr == [tag |-> "JoinErr"]
NoResult == [tag |-> "none"]
NoResp == [kind |-> "none"]

NewTask(item, url) ==
    [item |-> item, url |-> url, st |-> "queued", attempt |-> 0, fetches |-> 0,
     resp |-> NoResp, result |-> NoResult, yielded |-> FALSE]

\* Futures held by the buffered / buffer_unordered queue: polled (so their
\* task is spawned) and not yet handed to the consumer.
InQueue == {i \in 1..Len(tasks) : tasks[i].st # "queued" /\ ~tasks[i].yielded}

\* Spawned tasks that have not returned.
InFlight == {i \in 1..Len(tasks) : tasks[i].st = "running"}

Batch == pc \in {"ordered", "keyed"}

\* Mutant: the queue is allowed one future more than download_jobs.
CanStartOverfill(i) ==
    /\ Batch
    /\ i \in 1..Len(tasks)
    /\ tasks[i].st = "queued"
    /\ \A j \in 1..(i - 1) : tasks[j].st # "queued"
    /\ Cardinality(InQueue) <= jobs

\* Mutant: once a task has failed no further future is pulled.
CanStartUnlessFailed(i) ==
    /\ Batch
    /\ i \in 1..Len(tasks)
    /\ tasks[i].st = "queued"
    /\ \A j \in 1..(i - 1) : tasks[j].st # "queued"
    /\ Cardinality(InQueue) < jobs
    /\ \A j \in 1..Len(tasks) : tasks[j].result.tag \notin {"Err", "JoinErr"}

\* The stream pulls the next future off the iterator while the queue holds
\* fewer than download_jobs futures; polling it spawns the task.
CanStart(i) ==
    /\ Batch
    /\ i \in 1..Len(tasks)
    /\ tasks[i].st = "queued"
    /\ \A j \in 1..(i - 1) : tasks[j].st # "queued"
    /\ Cardinality(InQueue) < jobs

StartTask(i) ==
    /\ CanStart(i)
    /\ tasks' = [tasks EXCEPT ![i].st = "running", ![i].attempt = 0]
    /\ UNCHANGED <<wvars, file, doc, pc, cmd, jobs, out, results, succeeded, failed,
                   exit, writes, ops>>

\* One iteration of the loop of lines 162-173 on the answer r.
Attempt(i, r) ==
    /\ Batch
    /\ i \in 1..Len(tasks)
    /\ tasks[i].st = "running"
    /\ LET t == tasks[i]
           got == fetch_url(r, t.fetches + 1)
           seen == [t EXCEPT !.fetches = t.fetches + 1, !.resp = r]
       IN tasks' = [tasks EXCEPT ![i] =
            IF got.ok
            THEN [seen EXCEPT !.st = "done", !.result = TaskOk(Checksums(got.bytes))]
            ELSE IF t.attempt = LastAttempt
            THEN [seen EXCEPT !.st = "done", !.result = TaskErr(got.err)]
            ELSE [seen EXCEPT !.attempt = t.attempt + 1]]
    /\ UNCHANGED <<wvars, file, doc, pc, cmd, jobs, out, results, succeeded, failed,
                   exit, writes, ops>>

\* The spawned task panics: the JoinHandle resolves to a JoinError.
TaskPanic(i) ==
    /\ Batch
    /\ i \in 1..Len(tasks)
    /\ tasks[i].st = "running"
    /\ tasks' = [tasks EXCEPT ![i].st = "done", ![i].result = JoinErr]
    /\ UNCHANGED <<wvars, file, doc, pc, cmd, jobs, out, results, succeeded, failed,
                   exit, writes, ops>>

-----------------------------------------------------------------------------
(* The commands.                                                           *)

\* Mutant: a missing file is read as a document with one empty project.
read_release_json_with_project(f, allow_missing) ==
    IF f # Absent THEN [ok |-> TRUE, doc |-> f]
    ELSE IF allow_missing
    THEN [ok |-> TRUE,
          doc |-> [projects |-> [n \in {"nextest"} |->
                                    [latest |-> None, ranges |-> EmptyMap]]]]
    ELSE [ok |-> FALSE]

\* read_release_json: the document of the file; the default document when
\* the file is absent and that is allowed; an error otherwise.
read_release_json(f, allow_missing) ==
    IF f # Absent THEN [ok |-> TRUE, doc |-> f]
    ELSE IF allow_missing THEN [ok |-> TRUE, doc |-> DefaultDoc]
    ELSE [ok |-> FALSE]

\* format!("{}/{}", archive_prefix, archive.name)
ArchiveUrl(archive_prefix, archive) == archive_prefix \o "/" \o archive.name

\* Lines 28-34: one future per archive, in input order.
ReleaseFetchTasks(archive_prefix, archives) ==
    [i \in 1..Len(archives) |->
        NewTask(archives[i], ArchiveUrl(archive_prefix, archives[i]))]

\* Mutant: one future per distinct URL, the first location of each URL.
BackfillFetchTasksDistinct(release_json) ==
    LET locations == all_locations_without_checksums(release_json)
        firsts == SelectSeq([i \in 1..Len(locations) |-> [at |-> i, l |-> locations[i]]],
                            LAMBDA x : \A j \in 1..(x.at - 1) : locations[j].url # x.l.url)
    IN [i \in 1..Len(firsts) |-> NewTask(firsts[i].l, firsts[i].l.url)]

\* Lines 83-92: one future per location that is not checksum-complete.
BackfillFetchTasks(release_json) ==
    LET locations == all_locations_without_checksums(release_json)
    IN [i \in 1..Len(locations) |-> NewTask(locations[i], locations[i].url)]

\* add-release: read the file (missing allowed), then fetch_release_checksums
\* up to the creation of the stream (lines 28-43).
StartAddRelease(version, archives, n) ==
    /\ pc = "start"
    /\ doc' = read_release_json(file, TRUE).doc
    /\ cmd' = [kind |-> "add-release", release_url |-> ReleaseUrl,
               archive_prefix |-> Prefix, version |-> version, archives |-> archives]
    /\ jobs' = n
    /\ tasks' = ReleaseFetchTasks(Prefix, archives)
    /\ out' = <<>>
    /\ succeeded' = 0
    /\ failed' = 0
    /\ pc' = "ordered"
    /\ UNCHANGED <<wvars, file, results, exit, writes, ops>>

\* backfill: read the file (it must exist), then backfill_checksums up to
\* the creation of the stream (lines 80-98).
StartBackfill(n) ==
    /\ pc = "start"
    /\ LET read == read_release_json(file, FALSE)
       IN IF read.ok
          THEN LET locations == all_locations_without_checksums(read.doc)
               IN /\ doc' = read.doc
                  /\ cmd' = [kind |-> "backfill", location_count |-> Len(locations)]
                  /\ jobs' = n
                  /\ tasks' = BackfillFetchTasks(read.doc)
                  /\ results' = EmptyMap
                  /\ succeeded' = 0
                  /\ failed' = 0
                  /\ pc' = "keyed"
                  /\ UNCHANGED exit
          ELSE /\ pc' = "exit"
               /\ exit' = "err"
               /\ UNCHANGED <<doc, cmd, jobs, tasks, results, succeeded, failed>>
    /\ UNCHANGED <<wvars, file, out, writes, ops>>

\* The stream fills its queue before it looks for a finished future.
QueueFilled == \A j \in 1..Len(tasks) : ~CanStart(j)

\* Mutant: buffer_unordered in place of buffered.
AnyInQueue(i) == i \in InQueue

\* buffered keeps its futures in a FuturesOrdered: only the oldest future
\* not yet handed over can be handed over.
QueueHead(i) == i \in InQueue /\ \A j \in InQueue : i <= j

\* buffered: the head of the queue is handed over once it is done; then the
\* loop body of lines 46-73.
YieldOrdered(i) ==
    /\ pc = "ordered"
    /\ QueueFilled
    /\ QueueHead(i)
    /\ tasks[i].st = "done"
    /\ LET result == tasks[i].result
           checksums == IF result.tag = "Ok" THEN OkChecksums(result.checksums)
                        ELSE IF result.tag = "Err" THEN ErrChecksums(result.err)
                        ELSE ErrChecksums([kind |-> "join", at |-> 0])
       IN /\ succeeded' = IF result.tag = "Ok" THEN succeeded + 1 ELSE succeeded
          /\ failed' = IF result.tag = "Ok" THEN failed ELSE failed + 1
          /\ out' = Append(out, [archive |-> tasks[i].item,
                                 url |-> tasks[i].url,
                                 checksums |-> checksums])
    /\ tasks' = [tasks EXCEPT ![i].yielded = TRUE]
    /\ UNCHANGED <<wvars, file, doc, pc, cmd, jobs, results, exit, writes, ops>>

\* Mutant: a failed task discards the results collected so far.
YieldKeyedAbortOnError(i) ==
    /\ pc = "keyed"
    /\ QueueFilled
    /\ i \in InQueue
    /\ tasks[i].st = "done"
    /\ LET result == tasks[i].result
       IN /\ results' = IF result.tag = "Ok"
                        THEN Put(results, tasks[i].url, result.checksums)
                        ELSE EmptyMap
          /\ succeeded' = IF result.tag = "Ok" THEN succeeded + 1 ELSE succeeded
          /\ failed' = IF result.tag = "Err" THEN failed + 1 ELSE failed
    /\ tasks' = [tasks EXCEPT ![i].yielded = TRUE]
    /\ UNCHANGED <<wvars, file, doc, pc, cmd, jobs, out, exit, writes, ops>>

\* Mutant: the tree is updated and persisted after every fetched URL.
YieldKeyedPersistEach(i) ==
    /\ pc = "keyed"
    /\ QueueFilled
    /\ i \in InQueue
    /\ tasks[i].st = "done"
    /\ LET result == tasks[i].result
       IN /\ results' = IF result.tag = "Ok"
                        THEN Put(results, tasks[i].url, result.checksums)
                        ELSE results
          /\ succeeded' = IF result.tag = "Ok" THEN succeeded + 1 ELSE succeeded
          /\ failed' = IF result.tag = "Err" THEN failed + 1 ELSE failed
          /\ file' = IF result.tag = "Ok" THEN ApplyResults(file, results') ELSE file
          /\ writes' = IF result.tag = "Ok" THEN writes + 1 ELSE writes
    /\ tasks' = [tasks EXCEPT ![i].yielded = TRUE]
    /\ UNCHANGED <<wvars, doc, pc, cmd, jobs, out, exit, ops>>

\* Mutant: each fetched checksum map is applied to the tree at once.
YieldKeyedApplyEach(i) ==
    /\ pc = "keyed"
    /\ QueueFilled
    /\ i \in InQueue
    /\ tasks[i].st = "done"
    /\ LET result == tasks[i].result
       IN /\ results' = IF result.tag = "Ok"
                        THEN Put(results, tasks[i].url, result.checksums)
                        ELSE results
          /\ succeeded' = IF result.tag = "Ok" THEN succeeded + 1 ELSE succeeded
          /\ failed' = IF result.tag = "Err" THEN failed + 1 ELSE failed
          /\ doc' = ApplyResults(doc, results')
    /\ tasks' = [tasks EXCEPT ![i].yielded = TRUE]
    /\ UNCHANGED <<wvars, file, pc, cmd, jobs, out, exit, writes, ops>>

\* buffer_unordered: any finished future of the queue is handed over; then
\* the loop body of lines 101-120.
YieldKeyed(i) ==
    /\ pc = "keyed"
    /\ QueueFilled
    /\ i \in InQueue
    /\ tasks[i].st = "done"
    /\ LET result == tasks[i].result
       IN /\ results' = IF result.tag = "Ok"
                        THEN Put(results, tasks[i].url, result.checksums)
                        ELSE results
          /\ succeeded' = IF result.tag = "Ok" THEN succeeded + 1 ELSE succeeded
          /\ failed' = IF result.tag = "Err" THEN failed + 1 ELSE failed
    /\ tasks' = [tasks EXCEPT ![i].yielded = TRUE]
    /\ UNCHANGED <<wvars, file, doc, pc, cmd, jobs, out, exit, writes, ops>>

\* stream.next() returns None: the iterator is exhausted and the queue empty.
StreamEnded == \A i \in 1..Len(tasks) : tasks[i].yielded

\* write_releases_json taken as one step (SpecWrite takes it apart): the
\* file is replaced as a whole, or, when the write fails, left as it was.
write_releases_json(release_json, f, wok) == IF wok THEN release_json ELSE f

\* Mutant: a batch with a failed fetch fails the command before the tree is
\* touched.
FinishAddReleaseStrict(wok) ==
    /\ pc = "ordered"
    /\ StreamEnded
    /\ LET u == IF failed > 0 THEN [outcome |-> "bail", doc |-> doc]
                ELSE UpdateTree(doc, cmd.release_url, cmd.version, out)
       IN /\ doc' = u.doc
          /\ file' = IF u.outcome = "write"
                     THEN write_releases_json(u.doc, file, wok) ELSE file
          /\ writes' = IF u.outcome = "write" /\ wok THEN writes + 1 ELSE writes
          /\ exit' = IF u.outcome = "skip" \/ (u.outcome = "write" /\ wok)
                     THEN "ok" ELSE "err"
    /\ pc' = "exit"
    /\ UNCHANGED <<wvars, cmd, jobs, tasks, out, results, succeeded, failed, ops>>

\* fetch_release_checksums returns; update_release_json runs to its end.
FinishAddRelease(wok) ==
    /\ pc = "ordered"
    /\ StreamEnded
    /\ LET u == UpdateTree(doc, cmd.release_url, cmd.version, out)
       IN /\ doc' = u.doc
          /\ file' = IF u.outcome = "write"
                     THEN write_releases_json(u.doc, file, wok) ELSE file
          /\ writes' = IF u.outcome = "write" /\ wok THEN writes + 1 ELSE writes
          /\ exit' = IF u.outcome = "skip" \/ (u.outcome = "write" /\ wok)
                     THEN "ok" ELSE "err"
    /\ pc' = "exit"
    /\ UNCHANGED <<wvars, cmd, jobs, tasks, out, results, succeeded, failed, ops>>

\* backfill_checksums after the loop: lines 123-137.
FinishBackfill ==
    /\ pc = "keyed"
    /\ StreamEnded
    /\ doc' = ApplyResults(doc, results)
    /\ pc' = "applied"
    /\ UNCHANGED <<wvars, file, cmd, jobs, tasks, out, results, succeeded, failed,
                   exit, writes, ops>>

\* The caller of backfill_checksums persists the tree.
PersistBackfill(wok) ==
    /\ pc = "applied"
    /\ file' = write_releases_json(doc, file, wok)
    /\ writes' = IF wok THEN writes + 1 ELSE writes
    /\ exit' = IF wok THEN "ok" ELSE "err"
    /\ pc' = "exit"
    /\ UNCHANGED <<wvars, doc, cmd, jobs, tasks, out, results, succeeded, failed, ops>>

Init ==
    /\ file \in SeedFiles
    /\ doc = DefaultDoc
    /\ pc = "start"
    /\ cmd = [kind |-> "none"]
    /\ jobs = 1
    /\ tasks = <<>>
    /\ out = <<>>
    /\ results = EmptyMap
    /\ succeeded = 0
    /\ failed = 0
    /\ exit = "none"
    /\ writes = 0
    /\ ops = 0
    /\ temp = NoTemp
    /\ observed = NotRead

Next ==
    \/ \E version \in RunVersions, archives \in ArchiveLists, n \in 1..MaxJobs :
          StartAddRelease(version, archives, n)
    \/ \E n \in 1..MaxJobs : StartBackfill(n)
    \/ \E i \in 1..Len(tasks) : StartTask(i)
    \/ \E i \in 1..Len(tasks), r \in HttpOutcomes : Attempt(i, r)
    \/ \E i \in 1..Len(tasks) : TaskPanic(i)
    \/ \E i \in 1..Len(tasks) : YieldOrdered(i)
    \/ \E i \in 1..Len(tasks) : YieldKeyed(i)
    \/ \E wok \in BOOLEAN : FinishAddRelease(wok)
    \/ FinishBackfill
    \/ \E wok \in BOOLEAN : PersistBackfill(wok)

Spec == Init /\ [][Next]_vars

\* For the termination of a batch an HTTP attempt either fails or succeeds:
\* one answer of each kind.
LiveOutcomes ==
    {[kind |-> "neterr"],
     [kind |-> "resp", success |-> TRUE, readable |-> TRUE, body |-> 1]}

NextLive ==
    \/ \E version \in RunVersions, archives \in ArchiveLists, n \in 1..MaxJobs :
          StartAddRelease(version, archives, n)
    \/ \E n \in 1..MaxJobs : StartBackfill(n)
    \/ \E i \in 1..Len(tasks) : StartTask(i)
    \/ \E i \in 1..Len(tasks), r \in LiveOutcomes : Attempt(i, r)
    \/ \E i \in 1..Len(tasks) : TaskPanic(i)
    \/ \E i \in 1..Len(tasks) : YieldOrdered(i)
    \/ \E i \in 1..Len(tasks) : YieldKeyed(i)
    \/ \E wok \in BOOLEAN : FinishAddRelease(wok)
    \/ FinishBackfill
    \/ \E wok \in BOOLEAN : PersistBackfill(wok)

\* A step of the batch: the stream pulls a future, an HTTP attempt of a
\* running task returns, the stream hands over a result.
BatchStep ==
    \/ \E i \in 1..Len(tasks) : StartTask(i)
    \/ \E i \in 1..Len(tasks), r \in LiveOutcomes : Attempt(i, r)
    \/ \E i \in 1..Len(tasks) : YieldOrdered(i)
    \/ \E i \in 1..Len(tasks) : YieldKeyed(i)

\* SpecLive: the command run under the assumptions that the runtime keeps
\* polling the stream and the spawned tasks, and that every HTTP attempt
\* returns: a step of the batch that stays possible is taken.
SpecLive == Init /\ [][NextLive]_vars /\ WF_vars(BatchStep)

-----------------------------------------------------------------------------
(* SpecTree: runs of add-release one after the other, each reading the     *)
(* file the previous one left, with the outcome of its fetch batch given.  *)

MinorPatchValues == {0, 1}

TreeVersions ==
    {V(ma, mi, pa, pr) : ma \in 0..MaxMajor, mi \in MinorPatchValues,
                         pa \in MinorPatchValues, pr \in 0..MaxPre}

\* What fetch_release_checksums returns for an archive and a fetch outcome.
ArchiveWithChecksums(archive, checksums) ==
    [archive |-> archive, url |-> ArchiveUrl(Prefix, archive), checksums |-> checksums]

\* The empty list, and a list of two archives of which the first could not
\* be fetched.
TreeArchiveLists ==
    {<<>>,
     <<ArchiveWithChecksums(PoolArchive(1), ErrChecksums([kind |-> "connect", at |-> 3])),
       ArchiveWithChecksums(PoolArchive(2), OkChecksums(Checksums(2)))>>}

\* One project that has no release yet.
EmptyProjectDoc ==
    [projects |-> [n \in {"nextest"} |-> [latest |-> None, ranges |-> EmptyMap]]]

\* Two projects.
TwoProjectDoc ==
    [projects |-> [n \in {"nextest", "other"} |->
        IF n = "nextest" THEN SeedDoc.projects["nextest"]
        ELSE [latest |-> None, ranges |-> EmptyMap]]]

TreeSeeds == {Absent, EmptyProjectDoc, SeedDoc, TwoProjectDoc}

InitTree ==
    /\ file \in TreeSeeds
    /\ doc = DefaultDoc
    /\ pc = "tree"
    /\ cmd = [kind |-> "none"]
    /\ jobs = 1
    /\ tasks = <<>>
    /\ out = <<>>
    /\ results = EmptyMap
    /\ succeeded = 0
    /\ failed = 0
    /\ exit = "none"
    /\ writes = 0
    /\ ops = 0
    /\ temp = NoTemp
    /\ observed = NotRead

\* One run of add-release: read_release_json (missing allowed), then
\* update_release_json on the archives and their fetch outcomes.  Runs are
\* chained while they succeed: a failed run leaves the file as it was.
AddRelease(version, archives, wok) ==
    /\ pc = "tree"
    /\ ops < MaxOps
    /\ exit # "err"
    /\ LET read == read_release_json(file, TRUE)
           u == UpdateTree(read.doc, ReleaseUrl, version, archives)
       IN /\ doc' = u.doc
          /\ file' = IF u.outcome = "write"
                     THEN write_releases_json(u.doc, file, wok) ELSE file
          /\ writes' = IF u.outcome = "write" /\ wok THEN writes + 1 ELSE writes
          /\ exit' = IF u.outcome = "skip" \/ (u.outcome = "write" /\ wok)
                     THEN "ok" ELSE "err"
          /\ cmd' = [kind |-> "add-release", outcome |-> u.outcome,
                     count |-> Len(archives)]
    /\ ops' = ops + 1
    /\ UNCHANGED <<wvars, pc, jobs, tasks, out, results, succeeded, failed>>

NextTree ==
    \E version \in TreeVersions, archives \in TreeArchiveLists, wok \in BOOLEAN :
        AddRelease(version, archives, wok)

SpecTree == InitTree /\ [][NextTree]_vars

-----------------------------------------------------------------------------
(* SpecOps: runs of add-release and of backfill one after the other on the *)
(* same file, the outcome of each fetch batch given.                       *)

\* Versions of the add-release runs: every bucket kind, with and without
\* a prerelease tag.
OpsVersions ==
    {V(ma, mi, 0, pr) : ma \in 0..MaxMajor, mi \in MinorPatchValues, pr \in 0..MaxPre}

\* What the loop of backfill_checksums can leave in results: Checksums for
\* any part of the URLs that were fetched.
BackfillResults(release_json) ==
    LET fetched == BackfillFetchTasks(release_json)
        urls == {fetched[i].url : i \in 1..Len(fetched)}
    IN UNION {[S -> {Checksums(2)}] : S \in SUBSET urls}

\* One run of backfill: read_release_json (the file must exist),
\* backfill_checksums with the batch leaving res, then the write.
BackfillRun(res, wok) ==
    /\ pc = "tree"
    /\ ops < MaxOps
    /\ exit # "err"
    /\ LET read == read_release_json(file, FALSE)
       IN IF read.ok
          THEN /\ res \in BackfillResults(read.doc)
               /\ doc' = ApplyResults(read.doc, res)
               /\ file' = write_releases_json(doc', file, wok)
               /\ writes' = IF wok THEN writes + 1 ELSE writes
               /\ exit' = IF wok THEN "ok" ELSE "err"
               /\ cmd' = [kind |-> "backfill", outcome |-> "write",
                          count |-> Len(BackfillFetchTasks(read.doc))]
          ELSE /\ res = EmptyMap
               /\ wok
               /\ exit' = "err"
               /\ cmd' = [kind |-> "backfill", outcome |-> "bail", count |-> 0]
               /\ UNCHANGED <<file, doc, writes>>
    /\ ops' = ops + 1
    /\ UNCHANGED <<wvars, pc, jobs, tasks, out, results, succeeded, failed>>

\* Every result map a backfill of some document of the run can be given.
OpsResults ==
    UNION {[S -> {Checksums(2)}] :
              S \in SUBSET {"https://cdn/old-linux.tar.gz", "https://cdn/old-mac.tar.gz",
                            ArchiveUrl(Prefix, PoolArchive(1))}}

NextOps ==
    \/ \E version \in OpsVersions, archives \in TreeArchiveLists, wok \in BOOLEAN :
          AddRelease(version, archives, wok)
    \/ \E res \in OpsResults, wok \in BOOLEAN : BackfillRun(res, wok)

SpecOps == InitTree /\ [][NextOps]_vars

-----------------------------------------------------------------------------
(* SpecWrite: one run of update_release_json with write_releases_json      *)
(* taken step by step, next to a concurrent reader of the path.  Spec and  *)
(* SpecTree take the write as one step.                                    *)

\* Capacity of the BufWriter, counted in chunks of the serialization.
BufCapacity == 2

\* The pieces to_writer_pretty writes one after the other: the envelope of
\* the document, then one per project, per bucket and per version entry.
SerializedChunks(release_json) ==
    LET P == release_json.projects
    IN {<<"document">>}
       \cup {<<n>> : n \in DOMAIN P}
       \cup UNION {{<<n, r>> : r \in DOMAIN P[n].ranges} : n \in DOMAIN P}
       \cup UNION {UNION {{<<n, r, v>> : v \in DOMAIN P[n].ranges[r].versions} :
                             r \in DOMAIN P[n].ranges} : n \in DOMAIN P}

SerializedLen(release_json) == Cardinality(SerializedChunks(release_json))

\* Contents of a file that holds the first len chunks of the serialization
\* of release_json: the document when all are there, a truncated text
\* otherwise.
Written(release_json, len) ==
    IF len = SerializedLen(release_json) THEN release_json
    ELSE [truncated |-> release_json, len |-> len]

InitWrite ==
    /\ file \in TreeSeeds
    /\ doc = DefaultDoc
    /\ pc = "update"
    /\ cmd = [kind |-> "none"]
    /\ jobs = 1
    /\ tasks = <<>>
    /\ out = <<>>
    /\ results = EmptyMap
    /\ succeeded = 0
    /\ failed = 0
    /\ exit = "none"
    /\ writes = 0
    /\ ops = 0
    /\ temp = NoTemp
    /\ observed = NotRead

\* update_release_json up to the call of write_releases_json.
BeginWrite(version, archives) ==
    /\ pc = "update"
    /\ LET u == UpdateTree(read_release_json(file, TRUE).doc, ReleaseUrl, version, archives)
       IN /\ doc' = u.doc
          /\ cmd' = [kind |-> "add-release", outcome |-> u.outcome,
                     previous |-> file, next |-> 1, buffered |-> 0, len |-> 0]
          /\ pc' = IF u.outcome = "write" THEN "create" ELSE "exit"
          /\ exit' = IF u.outcome = "write" THEN exit
                     ELSE IF u.outcome = "skip" THEN "ok" ELSE "err"
    /\ UNCHANGED <<file, jobs, tasks, out, results, succeeded, failed, writes, ops,
                   temp, observed>>

\* The write ends with an error: the temporary file is removed and the
\* path left alone.
WriteFails ==
    /\ temp' = NoTemp
    /\ exit' = "err"
    /\ pc' = "exit"
    /\ UNCHANGED <<file, doc, cmd, writes>>

\* AtomicFile::write creates the temporary file next to the path.
CreateTemp(ok) ==
    /\ pc = "create"
    /\ IF ok
       THEN /\ temp' = Written(doc, 0)
            /\ pc' = "serialize"
            /\ UNCHANGED <<file, doc, cmd, exit, writes>>
       ELSE WriteFails
    /\ UNCHANGED <<jobs, tasks, out, results, succeeded, failed, ops, observed>>

\* to_writer_pretty writes the next chunk into the BufWriter: it goes to
\* the buffer while there is room; a full buffer is flushed to the
\* temporary file first, and an error of that flush is returned.
SerializeChunk(ok) ==
    /\ pc = "serialize"
    /\ cmd.next <= SerializedLen(doc)
    /\ IF cmd.buffered < BufCapacity
       THEN /\ ok
            /\ cmd' = [cmd EXCEPT !.next = @ + 1, !.buffered = @ + 1]
            /\ UNCHANGED <<file, doc, pc, exit, writes, temp>>
       ELSE IF ok
       THEN /\ cmd' = [cmd EXCEPT !.next = @ + 1, !.buffered = 1,
                                  !.len = @ + cmd.buffered]
            /\ temp' = Written(doc, cmd.len + cmd.buffered)
            /\ UNCHANGED <<file, doc, pc, exit, writes>>
       ELSE WriteFails
    /\ UNCHANGED <<jobs, tasks, out, results, succeeded, failed, ops, observed>>

\* to_writer_pretty returns Ok and the BufWriter, a temporary of the call,
\* is dropped: its drop flushes the buffer and ignores the result.
DropBufWriter(ok) ==
    /\ pc = "serialize"
    /\ cmd.next > SerializedLen(doc)
    /\ cmd' = [cmd EXCEPT !.buffered = 0,
                          !.len = IF ok THEN @ + cmd.buffered ELSE @]
    /\ temp' = IF ok THEN Written(doc, cmd.len + cmd.buffered) ELSE temp
    /\ pc' = "sync"
    /\ UNCHANGED <<file, doc, exit, writes>>
    /\ UNCHANGED <<jobs, tasks, out, results, succeeded, failed, ops, observed>>

\* AtomicFile::write: sync_all on the temporary file.
SyncAll(ok) ==
    /\ pc = "sync"
    /\ IF ok
       THEN /\ pc' = "commit"
            /\ UNCHANGED <<file, doc, cmd, exit, writes, temp>>
       ELSE WriteFails
    /\ UNCHANGED <<jobs, tasks, out, results, succeeded, failed, ops, observed>>

\* AtomicFile::write: the temporary file is renamed onto the path.
Commit(ok) ==
    /\ pc = "commit"
    /\ IF ok
       THEN /\ file' = temp
            /\ temp' = NoTemp
            /\ writes' = writes + 1
            /\ exit' = "ok"
            /\ pc' = "exit"
            /\ UNCHANGED <<doc, cmd>>
       ELSE WriteFails
    /\ UNCHANGED <<jobs, tasks, out, results, succeeded, failed, ops, observed>>

\* Another process reads the path.
ReadPath ==
    /\ pc \in {"create", "serialize", "sync", "commit", "exit"}
    /\ cmd.outcome = "write"
    /\ observed' = file
    /\ UNCHANGED <<file, doc, pc, cmd, jobs, tasks, out, results, succeeded, failed,
                   exit, writes, ops, temp>>

NextWrite ==
    \/ \E version \in TreeVersions, archives \in TreeArchiveLists :
          BeginWrite(version, archives)
    \/ \E ok \in BOOLEAN : CreateTemp(ok)
    \/ \E ok \in BOOLEAN : SerializeChunk(ok)
    \/ \E ok \in BOOLEAN : DropBufWriter(ok)
    \/ \E ok \in BOOLEAN : SyncAll(ok)
    \/ \E ok \in BOOLEAN : Commit(ok)
    \/ ReadPath

SpecWrite == InitWrite /\ [][NextWrite]_vars

-----------------------------------------------------------------------------
(* SpecRange: VersionRange::from_version applied to one version.           *)

MaxPart == 2

MaxBuild == 1

\* Versions with every combination of major, minor, patch, prerelease and
\* build metadata.
RangeVersions ==
    {[major |-> ma, minor |-> mi, patch |-> pa, pre |-> pr, build |-> b] :
        ma \in 0..MaxMajor, mi \in 0..MaxPart, pa \in 0..MaxPart,
        pr \in 0..MaxPre, b \in 0..MaxBuild}

InitRange ==
    /\ file = Absent
    /\ doc = DefaultDoc
    /\ pc = "version"
    /\ cmd \in {[kind |-> "from_version", version |-> v] : v \in RangeVersions}
    /\ jobs = 1
    /\ tasks = <<>>
    /\ out = <<>>
    /\ results = EmptyMap
    /\ succeeded = 0
    /\ failed = 0
    /\ exit = "none"
    /\ writes = 0
    /\ ops = 0
    /\ temp = NoTemp
    /\ observed = NotRead

\* The call: out holds the VersionRange returned.
FromVersion ==
    /\ pc = "version"
    /\ out' = <<from_version(cmd.version)>>
    /\ pc' = "range"
    /\ UNCHANGED <<wvars, file, doc, cmd, jobs, tasks, results, succeeded, failed,
                   exit, writes, ops>>

NextRange == FromVersion

SpecRange == InitRange /\ [][NextRange]_vars

-----------------------------------------------------------------------------
(* SpecOrder: two versions filed by add-release into a project that has    *)
(* no release yet.                                                         *)

OrderVersions ==
    {[major |-> ma, minor |-> mi, patch |-> pa, pre |-> pr, build |-> b] :
        ma \in 0..MaxMajor, mi \in MinorPatchValues, pa \in MinorPatchValues,
        pr \in 0..MaxPre, b \in 0..MaxBuild}

InitOrder ==
    /\ file = EmptyProjectDoc
    /\ doc = DefaultDoc
    /\ pc = "versions"
    /\ cmd \in {[kind |-> "file", first |-> v1, second |-> v2] :
                   v1 \in OrderVersions, v2 \in OrderVersions}
    /\ jobs = 1
    /\ tasks = <<>>
    /\ out = <<>>
    /\ results = EmptyMap
    /\ succeeded = 0
    /\ failed = 0
    /\ exit = "none"
    /\ writes = 0
    /\ ops = 0
    /\ temp = NoTemp
    /\ observed = NotRead

\* update_release_json for the first version, then for the second; out
\* holds the range each was filed under.
FileVersions ==
    /\ pc = "versions"
    /\ \E archives \in TreeArchiveLists :
          /\ archives # <<>>
          /\ LET one == UpdateTree(file, ReleaseUrl, cmd.first, archives).doc
             IN doc' = UpdateTree(one, ReleaseUrl, cmd.second, archives).doc
    /\ out' = <<from_version(cmd.first), from_version(cmd.second)>>
    /\ pc' = "filed"
    /\ UNCHANGED <<wvars, file, cmd, jobs, tasks, results, succeeded, failed,
                   exit, writes, ops>>

NextOrder == FileVersions

SpecOrder == InitOrder /\ [][NextOrder]_vars

-----------------------------------------------------------------------------
(* Properties of the fetch batch.                                          *)

\* The outcome ArchiveWithChecksums.checksums carries for a task result.
OutcomeOf(result) ==
    IF result.tag = "Ok" THEN OkChecksums(result.checksums)
    ELSE IF result.tag = "Err" THEN ErrChecksums(result.err)
    ELSE ErrChecksums([kind |-> "join", at |-> 0])

\* C1: in ordered mode the i-th element of the returned list carries the
\* i-th input archive, the URL prefix + "/" + name of that archive and the
\* outcome of the task started for that archive, whatever the concurrency
\* limit and the order of completions; the full list has the input's length.
C1_OrderedResults ==
    cmd.kind = "add-release" =>
        /\ Len(out) <= Len(cmd.archives)
        /\ \A i \in 1..Len(out) :
              /\ out[i].archive = cmd.archives[i]
              /\ out[i].url = cmd.archive_prefix \o "/" \o cmd.archives[i].name
              /\ tasks[i].st = "done"
              /\ out[i].checksums = OutcomeOf(tasks[i].result)
        /\ (pc = "exit" => Len(out) = Len(cmd.archives))

\* A returned list of two distinct archives whose first task needed all
\* three fetches and failed while the second succeeded at its first fetch.
C1_Witness ==
    /\ cmd.kind = "add-release"
    /\ pc = "exit"
    /\ jobs = 2
    /\ Len(out) = 2
    /\ cmd.archives[1] # cmd.archives[2]
    /\ tasks[1].fetches = 3 /\ ~out[1].checksums.ok
    /\ tasks[2].fetches = 1 /\ out[2].checksums.ok

\* C2: in both modes at most download_jobs tasks are started and not yet
\* terminal.
C2_BoundedInFlight == Batch => Cardinality(InFlight) <= jobs

\* download_jobs tasks run while a further future waits in the iterator.
C2_Witness ==
    /\ pc = "keyed"
    /\ jobs = 2
    /\ Cardinality(InFlight) = jobs
    /\ \E i \in 1..Len(tasks) : tasks[i].st = "queued"

\* The state part of C3: a task fetches at most 3 times; it reports Ok at
\* the first fetch that succeeds; it reports Err only after exactly 3 failed
\* fetches, with the error of the third.
C3_TaskInv ==
    \A i \in 1..Len(tasks) :
        LET t == tasks[i] IN
        /\ t.fetches <= 3
        /\ (t.st = "running" =>
                /\ t.fetches = t.attempt
                /\ (t.fetches > 0 => ~fetch_url(t.resp, t.fetches).ok))
        /\ (t.result.tag = "Ok" =>
                /\ fetch_url(t.resp, t.fetches).ok
                /\ t.result.checksums = Checksums(t.resp.body))
        /\ (t.result.tag = "Err" =>
                /\ t.fetches = 3
                /\ ~fetch_url(t.resp, 3).ok
                /\ t.result.err = fetch_url(t.resp, 3).err)

\* C3, with the task's result and fetch count frozen once it is done: no
\* fetch follows the fetch that succeeded, nor the third that failed.
C3_ThreeAttempts ==
    /\ []C3_TaskInv
    /\ [][\A i \in 1..Len(tasks) :
            (tasks[i].st = "done" /\ i \in DOMAIN tasks')
                => /\ tasks'[i].fetches = tasks[i].fetches
                   /\ tasks'[i].result = tasks[i].result]_vars

\* One task failed for good after three fetches, another succeeded at its
\* second fetch.
C3_Witness ==
    \E i, j \in 1..Len(tasks) :
        /\ tasks[i].result.tag = "Err" /\ tasks[i].fetches = 3
        /\ tasks[j].result.tag = "Ok" /\ tasks[j].fetches = 2

\* C4: a response with a non-success status counts as a failed attempt and
\* never yields Checksums computed from its body.
C4_NonSuccessIsFailure ==
    \A i \in 1..Len(tasks) :
        (tasks[i].resp.kind = "resp" /\ ~tasks[i].resp.success)
            => tasks[i].result.tag # "Ok"

\* Tasks of the batch with the given URL.
TasksOf(url) == {i \in 1..Len(tasks) : tasks[i].url = url}

SucceededTasksOf(url) == {i \in TasksOf(url) : tasks[i].result.tag = "Ok"}

BackfillSettled == cmd.kind = "backfill" /\ pc \in {"keyed", "applied", "exit"} /\ StreamEnded

\* C5 as stated: the keyed batch returns an outcome, Ok or Err, for every
\* URL submitted.
C5_Original_OutcomePerUrl ==
    BackfillSettled => \A i \in 1..Len(tasks) : tasks[i].url \in DOMAIN results

\* C5 as amended: the ordered batch returns one outcome, Ok or Err, per
\* input; the keyed batch returns an entry exactly for the URLs some task
\* fetched successfully, the Checksums of such a task, and nothing for a URL
\* whose tasks all failed; a failure leaves the outcomes of the siblings as
\* their tasks produced them.
C5_OutcomesKept ==
    /\ (cmd.kind = "add-release" /\ pc = "exit") =>
          /\ Len(out) = Len(tasks)
          /\ \A i \in 1..Len(tasks) :
                /\ out[i].checksums.ok <=> tasks[i].result.tag = "Ok"
                /\ out[i].checksums.ok =>
                      out[i].checksums.checksums = tasks[i].result.checksums
    /\ BackfillSettled =>
          /\ DOMAIN results = {tasks[i].url : i \in {j \in 1..Len(tasks) : tasks[j].result.tag = "Ok"}}
          /\ \A u \in DOMAIN results :
                \E i \in SucceededTasksOf(u) : results[u] = tasks[i].result.checksums

\* A settled backfill batch with a failed URL and a fetched one.
C5_Witness ==
    /\ BackfillSettled
    /\ \E i, j \in 1..Len(tasks) :
          /\ tasks[i].result.tag = "Err" /\ tasks[i].url \notin DOMAIN results
          /\ tasks[j].result.tag = "Ok" /\ tasks[j].url \in DOMAIN results

C7_SucceededUrlsComplete ==
    (cmd.kind = "backfill" /\ pc = "applied") =>
        LET locations == all_locations(doc) IN
        \A k \in 1..Len(locations) :
            SucceededTasksOf(locations[k].url) # {} =>
                /\ DOMAIN locations[k].checksums = {"SHA256", "BLAKE2B"}
                /\ \E i \in SucceededTasksOf(locations[k].url) :
                      /\ locations[k].checksums["SHA256"]
                            = HexEncode(Sha256Digest(tasks[i].resp.body))
                      /\ locations[k].checksums["BLAKE2B"]
                            = HexEncode(Blake2bDigest(tasks[i].resp.body))

\* A location that was complete with the digests of body 1 holds the digests
\* of body 2 after the backfill fetched its URL for a partial sibling.
C7_Witness ==
    /\ cmd.kind = "backfill" /\ pc = "applied"
    /\ LET before == all_locations(file)
           after == all_locations(doc)
       IN \E k \in 1..Len(after) :
             /\ before[k].checksums = CompleteMap(1)
             /\ after[k].checksums = CompleteMap(2)

\* The tree with every checksum map emptied: what is left is the versions,
\* buckets, latest pointers, statuses, release URLs, targets, formats, URLs.
StripChecksums(release_json) ==
    [projects |-> [n \in DOMAIN release_json.projects |->
        LET project == release_json.projects[n] IN
        [latest |-> project.latest,
         ranges |-> [r \in DOMAIN project.ranges |->
            LET data == project.ranges[r] IN
            [latest |-> data.latest,
             is_prerelease |-> data.is_prerelease,
             versions |-> [v \in DOMAIN data.versions |->
                LET e == data.versions[v] IN
                [release_url |-> e.release_url,
                 status |-> e.status,
                 locations |-> [i \in 1..Len(e.locations) |->
                    [e.locations[i] EXCEPT !.checksums = NoChecksums]]]]]]]]]

\* C8: after a backfill every location whose URL was not fetched (its
\* fetches all failed) holds the checksum map it had in the document read,
\* and nothing but checksum maps differs from that document.
C8_FailedUrlsUntouched ==
    (cmd.kind = "backfill" /\ pc = "applied") =>
        LET before == all_locations(file)
            after == all_locations(doc)
        IN /\ StripChecksums(doc) = StripChecksums(file)
           /\ Len(after) = Len(before)
           /\ \A k \in 1..Len(after) :
                 SucceededTasksOf(after[k].url) = {} =>
                     after[k].checksums = before[k].checksums

\* A backfill in which a partial location's URL failed three times and kept
\* its one digest, while another URL was fetched and applied.
C8_Witness ==
    /\ cmd.kind = "backfill" /\ pc = "applied"
    /\ doc # file
    /\ LET after == all_locations(doc)
       IN \E k \in 1..Len(after) :
             /\ after[k].checksums = PartialMap(1)
             /\ \E i \in TasksOf(after[k].url) :
                   tasks[i].result.tag = "Err" /\ tasks[i].fetches = 3

-----------------------------------------------------------------------------
(* Properties of the tree under add-release.                               *)

\* v is the greatest element of S in semantic-version order.
IsMaxVersion(v, S) == v \in S /\ \A w \in S : w = v \/ VersionLt(w, v)

\* The bucket invariant of the data model.
BucketInvariant(release_json) ==
    \A n \in DOMAIN release_json.projects :
        \A r \in DOMAIN release_json.projects[n].ranges :
            LET data == release_json.projects[n].ranges[r]
                keys == DOMAIN data.versions
                stable == {v \in keys : v.pre = 0}
            IN IF stable # {}
               THEN IsMaxVersion(data.latest, stable) /\ ~data.is_prerelease
               ELSE IsMaxVersion(data.latest, keys) /\ data.is_prerelease

\* C9: from a document that satisfies the bucket invariant, after any
\* sequence of successful add-release runs every bucket's latest is the
\* greatest non-prerelease version of the bucket with is_prerelease false,
\* or, when the bucket has none, its greatest version with is_prerelease
\* true.
C9_BucketLatest ==
    pc = "tree" =>
        /\ file # Absent => BucketInvariant(file)
        /\ exit = "ok" => BucketInvariant(doc)

\* After a run that wrote, a bucket whose greatest version is a prerelease
\* points at a smaller, non-prerelease version.
C9_Witness ==
    /\ pc = "tree" /\ ops >= 1 /\ exit = "ok" /\ cmd.outcome = "write"
    /\ \E n \in DOMAIN doc.projects : \E r \in DOMAIN doc.projects[n].ranges :
          LET data == doc.projects[n].ranges[r] IN
          /\ data.latest.pre = 0
          /\ \E v \in DOMAIN data.versions : v.pre # 0 /\ VersionLt(data.latest, v)
          /\ data.latest \notin DOMAIN SeedDoc.projects["nextest"].ranges[Major(1)].versions

\* The order of bucket keys the data model states: Patch < Minor < Major,
\* then by number.
KeyLeq(a, b) ==
    LET rank == [k \in {"Patch", "Minor", "Major"} |->
                    IF k = "Patch" THEN 0 ELSE IF k = "Minor" THEN 1 ELSE 2]
    IN \/ rank[a.kind] < rank[b.kind]
       \/ a.kind = b.kind /\ a.n <= b.n

ProjectInvariant(project) ==
    LET stable == {r \in DOMAIN project.ranges : ~project.ranges[r].is_prerelease}
    IN IF stable = {} THEN project.latest = None
       ELSE /\ project.latest \in stable
            /\ \A r \in stable : KeyLeq(r, project.latest)

TheProject(release_json) ==
    release_json.projects[CHOOSE n \in DOMAIN release_json.projects : TRUE]

\* The state part of C10: after every successful add-release with a
\* non-empty archive list Project.latest is the greatest bucket key among
\* the buckets that are not prerelease-only, None if there is none.
C10_ProjectLatestInv ==
    (pc = "tree" /\ cmd.kind = "add-release" /\ cmd.outcome = "write") =>
        /\ ProjectInvariant(TheProject(doc))
        /\ exit = "ok" => ProjectInvariant(TheProject(file))

\* C10: the invariant above in every state, and in every run that wrote:
\* a new prerelease-only bucket above all others leaves Project.latest.
C10_ProjectLatest ==
    /\ []C10_ProjectLatestInv
    /\ [][(pc = "tree" /\ cmd'.outcome = "write" /\ exit' = "ok")
            => LET old == TheProject(file)
                   new == TheProject(file')
               IN \A r \in DOMAIN new.ranges :
                     (/\ r \notin DOMAIN old.ranges
                      /\ new.ranges[r].is_prerelease
                      /\ \A q \in DOMAIN old.ranges : KeyLeq(q, r))
                        => new.latest = old.latest]_vars

\* Bucket "1" is the project's latest while bucket "2", created by a run,
\* holds prereleases only.
C10_Witness ==
    /\ pc = "tree" /\ cmd.kind = "add-release" /\ cmd.outcome = "write" /\ exit = "ok"
    /\ LET project == TheProject(file)
       IN /\ project.latest = Major(1)
          /\ Major(2) \in DOMAIN project.ranges
          /\ project.ranges[Major(2)].is_prerelease
          /\ project.ranges[Major(2)].latest.pre # 0


-----------------------------------------------------------------------------
(* Frame and error properties of add-release.                              *)

\* The document a run of add-release starts from.
TreeBefore == read_release_json(file, TRUE).doc

\* The bucket of range in the single project of release_json.
BucketOf(release_json, range) == TheProject(release_json).ranges[range]

\* A run of add-release has been made: in SpecTree, any step.
RunMade == pc = "tree" /\ ops' = ops + 1

\* The run is add-release of version with a non-empty archive list.
Inserts(version) ==
    \E archives \in TreeArchiveLists, wok \in BOOLEAN :
        archives # <<>> /\ AddRelease(version, archives, wok)

\* The versions of the bucket after the run that the run has inserted and
\* that are smaller than the latest the bucket had before.
InsertedBelowLatest(range) ==
    {version \in DOMAIN BucketOf(doc', range).versions :
        /\ VersionLt(version, BucketOf(TreeBefore, range).latest)
        /\ Inserts(version)}

\* C11 as stated: a run of add-release that inserts a version smaller than
\* the bucket's latest leaves the bucket's latest as it was.
C11_Original_SmallerKeepsLatest ==
    [][RunMade /\ cmd'.outcome = "write" =>
          \A range \in DOMAIN TheProject(TreeBefore).ranges :
              \A version \in InsertedBelowLatest(range) :
                  BucketOf(doc', range).latest = BucketOf(TreeBefore, range).latest]_vars

\* C11: a run of add-release that inserts a version smaller than the
\* bucket's latest leaves the bucket's latest as it was, when the version
\* is a prerelease or the bucket already holds a non-prerelease version;
\* a non-prerelease version inserted into a bucket of prereleases only
\* becomes the latest.
C11_SmallerKeepsLatest ==
    [][RunMade /\ cmd'.outcome = "write" =>
          \A range \in DOMAIN TheProject(TreeBefore).ranges :
              \A version \in InsertedBelowLatest(range) :
                  LET before == BucketOf(TreeBefore, range)
                      after == BucketOf(doc', range)
                  IN IF version.pre # 0 \/ ~before.is_prerelease
                     THEN after.latest = before.latest
                     ELSE after.latest = version /\ ~after.is_prerelease]_vars

\* The first run has inserted 1.0.1 below the latest 1.1.0 of bucket "1",
\* and the latest is still 1.1.0.
C11_Witness ==
    /\ pc = "tree" /\ ops = 1 /\ writes = 1 /\ cmd.outcome = "write"
    /\ file = doc
    /\ Cardinality(DOMAIN file.projects) = 1
    /\ Major(1) \in DOMAIN TheProject(file).ranges
    /\ LET data == BucketOf(file, Major(1))
       IN /\ data.latest = V(1, 1, 0, 0)
          /\ DOMAIN data.versions = {V(1, 0, 0, 0), V(1, 0, 1, 0), V(1, 1, 0, 0)}


\* A run of add-release has been made from a document that does not hold
\* exactly one project.
RunsWithoutSingleProject ==
    RunMade /\ Cardinality(DOMAIN TreeBefore.projects) # 1

\* The run fails and leaves the tree and the file as they were.
FailsUntouched ==
    /\ exit' = "err"
    /\ doc' = TreeBefore
    /\ file' = file
    /\ writes' = writes

\* C12 as stated: whenever the document holds zero projects or more than
\* one, add-release fails, changes nothing in the tree and writes no file.
C12_Original_SingleProject ==
    [][RunsWithoutSingleProject => FailsUntouched]_vars

\* C12: whenever the document holds zero projects or more than one and the
\* archive list is not empty, add-release fails, changes nothing in the
\* tree and writes no file; with the empty archive list it returns success
\* before the projects are counted, and changes and writes nothing either.
C12_SingleProject ==
    [][RunsWithoutSingleProject =>
          IF cmd'.count # 0
          THEN cmd'.outcome = "bail" /\ FailsUntouched
          ELSE /\ cmd'.outcome = "skip" /\ exit' = "ok"
               /\ doc' = TreeBefore /\ file' = file /\ writes' = writes]_vars

\* A run on the document of two projects has failed on the project count
\* and left the file as it was.
C12_Witness ==
    /\ pc = "tree" /\ ops = 1 /\ cmd.kind = "add-release" /\ cmd.count = 2
    /\ cmd.outcome = "bail" /\ exit = "err"
    /\ file = TwoProjectDoc /\ doc = TwoProjectDoc /\ writes = 0


\* C13: a run of add-release with the empty archive list returns success
\* and leaves the tree, whatever document it holds, and the file as they
\* were.
C13_EmptyListNoOp ==
    [][RunMade /\ cmd'.count = 0 =>
          /\ exit' = "ok"
          /\ doc' = TreeBefore
          /\ file' = file
          /\ writes' = writes]_vars

\* A run with the empty archive list on the seed document has returned
\* success, and the file is the seed document, never written.
C13_Witness ==
    /\ pc = "tree" /\ ops = 1 /\ cmd.kind = "add-release" /\ cmd.count = 0
    /\ exit = "ok"
    /\ file = SeedDoc /\ doc = SeedDoc /\ writes = 0


\* The location add-release stores for the i-th input archive: the complete
\* checksum map of the bytes fetched when its task ended Ok, the empty map
\* when it ended otherwise.
ExpectedLocation(i) ==
    [target |-> cmd.archives[i].target_format.target,
     format |-> cmd.archives[i].target_format.format,
     url |-> ArchiveUrl(cmd.archive_prefix, cmd.archives[i]),
     checksums |-> IF tasks[i].result.tag = "Ok"
                   THEN to_checksum_map(tasks[i].result.checksums)
                   ELSE NoChecksums]

\* C14: when add-release with a non-empty archive list on a document of one
\* project comes to its end, the tree holds the version entry with one
\* location per input archive, in input order, the checksum map empty for
\* an archive whose fetch ended in Err and complete for one whose fetch
\* ended Ok; and when the write itself succeeds the command succeeds and
\* the file holds that tree, whatever the fetches did.
C14_FetchErrNotFatal ==
    [][\A wok \in BOOLEAN :
          (/\ FinishAddRelease(wok)
           /\ cmd.archives # <<>>
           /\ Cardinality(DOMAIN doc.projects) = 1)
             => LET range == from_version(cmd.version)
                    entry == BucketOf(doc', range).versions[cmd.version]
                IN /\ range \in DOMAIN TheProject(doc').ranges
                   /\ cmd.version \in DOMAIN BucketOf(doc', range).versions
                   /\ Len(entry.locations) = Len(cmd.archives)
                   /\ \A i \in 1..Len(cmd.archives) :
                         /\ entry.locations[i] = ExpectedLocation(i)
                         /\ tasks[i].result.tag = "Ok" <=> Complete(entry.locations[i])
                         /\ tasks[i].result.tag # "Ok"
                               <=> entry.locations[i].checksums = NoChecksums
                   /\ wok => exit' = "ok" /\ file' = doc']_vars

\* add-release has succeeded and the file holds the new version with two
\* locations: the first, whose fetch failed after three attempts, with the
\* empty map, the second with the complete map.
C14_Witness ==
    /\ pc = "exit" /\ cmd.kind = "add-release" /\ exit = "ok"
    /\ Len(tasks) = 2
    /\ tasks[1].result.tag = "Err" /\ tasks[1].fetches = 3
    /\ tasks[2].result.tag = "Ok"
    /\ file = doc
    /\ LET entry == BucketOf(file, from_version(cmd.version)).versions[cmd.version]
       IN /\ Len(entry.locations) = 2
          /\ entry.locations[1].checksums = NoChecksums
          /\ Complete(entry.locations[2])


-----------------------------------------------------------------------------
(* Persistence.                                                            *)

\* C15: at every point during and after write_releases_json, the path
\* holds, and a concurrent reader of it has read, either the complete
\* previous contents or the complete new document, never a partial one.
C15_AtomicPersistence ==
    (pc \in {"create", "serialize", "sync", "commit", "exit"} /\ cmd.outcome = "write")
        => /\ file \in {cmd.previous, doc}
           /\ observed \in {NotRead, cmd.previous, doc}


\* Every task of the batch has ended and its result has been taken.
AllSettled ==
    \A i \in 1..Len(tasks) : tasks[i].st = "done" /\ tasks[i].yielded

\* C16: a run of backfill writes the file at most once and, when the write
\* succeeds, exactly once; nothing is written while the batch runs or
\* before the results are applied, and the one write happens when every
\* task has ended and stores the tree with every fetched checksum map
\* applied.
C16_PersistOnce ==
    cmd.kind = "backfill" =>
        /\ writes <= 1
        /\ pc = "keyed" => writes = 0 /\ file = doc
        /\ pc = "applied" =>
              /\ writes = 0
              /\ AllSettled
              /\ doc = ApplyResults(file, results)
        /\ pc = "exit" =>
              /\ AllSettled
              /\ IF exit = "ok"
                 THEN writes = 1 /\ file = doc
                 ELSE writes = 0 /\ doc = ApplyResults(file, results)

\* backfill has ended with one write, after a batch of which one task
\* failed and one succeeded, and the file holds a checksum map that was
\* fetched.
C16_Witness ==
    /\ cmd.kind = "backfill" /\ pc = "exit" /\ exit = "ok" /\ writes = 1
    /\ \E i \in 1..Len(tasks) : tasks[i].result.tag = "Err"
    /\ \E i \in 1..Len(tasks) : tasks[i].result.tag = "Ok"
    /\ file # SeedDoc
    /\ \E k \in 1..Len(all_locations(file)) :
          all_locations(file)[k].checksums = CompleteMap(2)


-----------------------------------------------------------------------------
(* Termination of the batch.                                               *)

\* The task has ended: with Checksums, with the error of its third fetch,
\* or, when it panicked, with a join error.
Terminal(t) ==
    /\ t.st = "done"
    /\ t.result.tag \in {"Ok", "Err", "JoinErr"}
    /\ t.result.tag = "Err" => t.fetches = 3
    /\ t.result.tag = "Ok" => t.fetches \in 1..3

\* The batch is over: the stream has handed over the result of every task.
BatchComplete ==
    /\ cmd.kind \in {"add-release", "backfill"}
    /\ StreamEnded
    /\ \A i \in 1..Len(tasks) : Terminal(tasks[i])

\* C17: with download_jobs >= 1, tasks that keep being run and HTTP
\* attempts that return, every batch, ordered or keyed, comes to its end,
\* and at its end every submitted task has been started and has ended,
\* whatever its siblings did.
C17_BatchCompletes ==
    /\ Batch ~> BatchComplete
    /\ [](pc \in {"applied", "exit"} /\ cmd.kind # "none" => BatchComplete)

\* With download_jobs = 1 the first task has failed for good, and the
\* second, started after it, has succeeded and been handed over.
C17_Witness ==
    /\ Batch /\ jobs = 1 /\ Len(tasks) = 2
    /\ BatchComplete
    /\ tasks[1].result.tag = "Err"
    /\ tasks[2].result.tag = "Ok"


-----------------------------------------------------------------------------
(* The bucket key.                                                         *)

\* C18: from_version returns Major(major) if major >= 1, else Minor(minor)
\* if minor >= 1, else Patch(patch), and so the same range for two versions
\* that differ in prerelease or build metadata only.
C18_BucketKey ==
    pc = "range" =>
        LET v == cmd.version
        IN /\ v.major >= 1 => out[1] = [kind |-> "Major", n |-> v.major]
           /\ v.major = 0 /\ v.minor >= 1 => out[1] = [kind |-> "Minor", n |-> v.minor]
           /\ v.major = 0 /\ v.minor = 0 => out[1] = [kind |-> "Patch", n |-> v.patch]
           /\ \A w \in RangeVersions :
                 (w.major = v.major /\ w.minor = v.minor /\ w.patch = v.patch)
                    => from_version(w) = out[1]

\* from_version has returned Minor(1) for 0.1.2 with a prerelease tag and
\* build metadata.
C18_Witness ==
    /\ pc = "range"
    /\ cmd.version = [major |-> 0, minor |-> 1, patch |-> 2, pre |-> 1, build |-> 1]
    /\ out = <<Minor(1)>>


-----------------------------------------------------------------------------
(* The tally.                                                              *)

\* The tasks whose result the loop has taken.
Completed == {i \in 1..Len(tasks) : tasks[i].yielded}

\* C19: in both modes, after the k-th completion succeeded + failed = k,
\* succeeded counting the tasks that ended Ok and failed all the others,
\* fetch errors and join errors alike; after the last completion the sum
\* is the number of tasks.
C19_TallyAccounts ==
    cmd.kind \in {"add-release", "backfill"} =>
        /\ succeeded = Cardinality({i \in Completed : tasks[i].result.tag = "Ok"})
        /\ failed = Cardinality({i \in Completed : tasks[i].result.tag # "Ok"})
        /\ succeeded + failed = Cardinality(Completed)
        /\ StreamEnded => succeeded + failed = Len(tasks)


-----------------------------------------------------------------------------
(* The tree during a backfill.                                             *)

\* C20: during a backfill no step taken while some task has not ended
\* changes the checksum map of any location, and the tree changes in one
\* step only: the one that, after the last task has ended and been handed
\* over, applies all fetched checksum maps.
C20_NoMutationInFlight ==
    [][cmd.kind = "backfill" =>
          /\ ~AllSettled => all_locations(doc') = all_locations(doc)
          /\ doc' # doc =>
                /\ AllSettled
                /\ pc = "keyed" /\ pc' = "applied"
                /\ doc' = ApplyResults(doc, results)]_vars

\* The batch of a backfill has ended with one task failed, and the step
\* after it has changed the tree.
C20_Witness ==
    /\ cmd.kind = "backfill" /\ pc = "applied"
    /\ AllSettled
    /\ doc # file
    /\ \E i \in 1..Len(tasks) : tasks[i].result.tag = "Err"


-----------------------------------------------------------------------------
(* Replacement of a version entry.                                         *)

\* The entry add-release stores for a call with these archives.
EntryOf(archives) ==
    [release_url |-> ReleaseUrl,
     status |-> "active",
     locations |-> [i \in 1..Len(archives) |-> LocationOf(archives[i])]]

\* C21: a run of add-release for a version that has an entry in its bucket
\* leaves that entry with the release_url and the locations of the call,
\* none of the prior ones, and with status active; every other entry the
\* bucket had is as it was.
C21_EntryReplaced ==
    [][RunMade /\ cmd'.outcome = "write" =>
          \A range \in DOMAIN TheProject(TreeBefore).ranges :
              \A version \in DOMAIN BucketOf(TreeBefore, range).versions :
                  LET old == BucketOf(TreeBefore, range).versions[version]
                      new == BucketOf(doc', range).versions[version]
                  IN /\ version \in DOMAIN BucketOf(doc', range).versions
                     /\ new # old => Inserts(version)
                     /\ \A archives \in TreeArchiveLists :
                           \/ archives = <<>>
                           \/ new = EntryOf(archives)
                           \/ ~\E wok \in BOOLEAN : AddRelease(version, archives, wok)]_vars

\* The first run has replaced the yanked entry of 1.0.0, which had the
\* locations old-linux and old-mac, by an active one with the two
\* locations of the call; the entry of 1.1.0 is the seed's.
C21_Witness ==
    /\ pc = "tree" /\ ops = 1 /\ writes = 1 /\ cmd.outcome = "write"
    /\ file = doc
    /\ Cardinality(DOMAIN file.projects) = 1
    /\ Major(1) \in DOMAIN TheProject(file).ranges
    /\ LET versions == BucketOf(file, Major(1)).versions
           seed == BucketOf(SeedDoc, Major(1)).versions
       IN /\ DOMAIN versions = DOMAIN seed
          /\ versions[V(1, 0, 0, 0)].status = "active"
          /\ Len(versions[V(1, 0, 0, 0)].locations) = 2
          /\ \A i \in 1..2 :
                versions[V(1, 0, 0, 0)].locations[i].url
                   \notin {seed[V(1, 0, 0, 0)].locations[k].url : k \in 1..2}
          /\ versions[V(1, 1, 0, 0)] = seed[V(1, 1, 0, 0)]


-----------------------------------------------------------------------------
(* Referential integrity of the latest pointers.                           *)

\* Every bucket's latest is a key of its versions; the project's latest,
\* when there is one, is a key of ranges whose bucket is not
\* prerelease-only.
PointersResolve(release_json) ==
    \A n \in DOMAIN release_json.projects :
        LET project == release_json.projects[n]
        IN /\ \A r \in DOMAIN project.ranges :
                 project.ranges[r].latest \in DOMAIN project.ranges[r].versions
           /\ project.latest # None =>
                 /\ project.latest \in DOMAIN project.ranges
                 /\ ~project.ranges[project.latest].is_prerelease

\* C22: from a document whose latest pointers resolve, after any sequence
\* of add-release and backfill runs they resolve, in the file and in the
\* tree of the last run: every bucket's latest is a key of the bucket's
\* versions, and Project.latest, when not None, is a key of ranges whose
\* bucket has is_prerelease false.
C22_PointersResolve ==
    pc = "tree" =>
        /\ file # Absent => PointersResolve(file)
        /\ PointersResolve(doc)

\* After an add-release that made a bucket of prereleases only above the
\* others and a backfill that filled in a checksum map, both written, the
\* pointers resolve: Project.latest is still bucket "1".
C22_Witness ==
    /\ pc = "tree" /\ ops = 2 /\ writes = 2 /\ cmd.kind = "backfill"
    /\ file = doc
    /\ Cardinality(DOMAIN file.projects) = 1
    /\ TheProject(file).latest = Major(1)
    /\ Major(2) \in DOMAIN TheProject(file).ranges
    /\ BucketOf(file, Major(2)).is_prerelease
    /\ \E k \in 1..Len(all_locations(file)) :
          /\ all_locations(file)[k].url = ArchiveUrl(Prefix, PoolArchive(1))
          /\ Complete(all_locations(file)[k])
    /\ PointersResolve(file)


-----------------------------------------------------------------------------
(* The order of the bucket keys.                                           *)

VersionLeq(a, b) == a = b \/ VersionLt(a, b)

RangeLeq(a, b) == a = b \/ RangeLt(a, b)

\* The versions of the buckets of project that are not prerelease-only.
StableBucketVersions(project) ==
    UNION {DOMAIN project.ranges[r].versions :
              r \in {q \in DOMAIN project.ranges : ~project.ranges[q].is_prerelease}}

\* C23: if v1 <= v2 in semantic-version order then from_version(v1) <=
\* from_version(v2) in the order of VersionRange (Patch < Minor < Major,
\* then by number); and the bucket Project.latest names holds the greatest
\* of the versions of the buckets that are not prerelease-only.
C23_KeyOrderAgrees ==
    pc = "filed" =>
        /\ VersionLeq(cmd.first, cmd.second) => RangeLeq(out[1], out[2])
        /\ VersionLeq(cmd.second, cmd.first) => RangeLeq(out[2], out[1])
        /\ LET project == TheProject(doc)
               versions == StableBucketVersions(project)
           IN project.latest # None =>
                 \E v \in DOMAIN project.ranges[project.latest].versions :
                     IsMaxVersion(v, versions)

\* 0.1.1 with build metadata and the prerelease 1.0.0-pre are filed under
\* Minor(1) and Major(1); bucket "1" is prerelease-only, so Project.latest
\* is Minor(1), the bucket that holds the greatest version outside it.
C23_Witness ==
    /\ pc = "filed"
    /\ cmd.first = [major |-> 0, minor |-> 1, patch |-> 1, pre |-> 0, build |-> 1]
    /\ cmd.second = [major |-> 1, minor |-> 0, patch |-> 0, pre |-> 1, build |-> 0]
    /\ out = <<Minor(1), Major(1)>>
    /\ TheProject(doc).latest = Minor(1)


-----------------------------------------------------------------------------
(* add-release on a missing file.                                          *)

\* C24: when the file is absent, add-release reads the default document,
\* which has no project, and with a non-empty archive list it fails on the
\* project count: the tree is still the default document, with no project
\* and no bucket, and the file is still absent.
C24_NoBootstrap ==
    [][RunMade /\ file = Absent =>
          /\ TreeBefore = DefaultDoc
          /\ DOMAIN TreeBefore.projects = {}
          /\ cmd'.count # 0 =>
                /\ cmd'.outcome = "bail"
                /\ exit' = "err"
                /\ doc' = DefaultDoc
                /\ file' = Absent
                /\ writes' = writes]_vars

\* A run with two archives on the absent file has failed on the project
\* count; there is still no file.
C24_Witness ==
    /\ pc = "tree" /\ ops = 1 /\ cmd.kind = "add-release" /\ cmd.count = 2
    /\ cmd.outcome = "bail" /\ exit = "err"
    /\ file = Absent /\ doc = DefaultDoc /\ writes = 0

====
